---- MODULE Spec2Model ----
(***************************************************************************)
(* p5.sound: p5.Oscillator (src/src/oscillator.js) and p5.Noise            *)
(* (src/unnamed/part_000) as state machines over the Web Audio graph they  *)
(* drive.  Time is counted in ticks of one millisecond; the audio clock    *)
(* (audiocontext.currentTime) only moves in Tick.  Gains are counted in    *)
(* tenths (0.5 is 5).                                                      *)
(***************************************************************************)
EXTENDS Integers, Sequences, FiniteSets, TLC

VARIABLES clock, osc, nodes, frequency, gain, chain, noise, players, ngain, call,
          passed

vars == <<clock, osc, nodes, frequency, gain, chain, noise, players, ngain, call,
          passed>>

oscVars == <<osc, nodes, frequency, gain>>

noiseVars == <<noise, players, ngain>>

(* ------------------------------ bounds -------------------------------- *)

MaxClock == 1

MaxNodes == 3

MaxMods == 2

MaxPlayers == 2

MaxStops == 2

MaxStages == 3

MaxPhases == 2

(* ------------------------- JavaScript values -------------------------- *)

\* An optional argument: <<>> is undefined, <<x>> is the number x.
NoArg == <<>>

Num(x) == <<x>>

\* JavaScript's  a || d  on an optional number: undefined and 0 are falsy.
OrDefault(a, d) == IF a = NoArg \/ a[1] = 0 THEN d ELSE a[1]

Abs(x) == IF x < 0 THEN -x ELSE x

Types == {"sine", "triangle", "sawtooth", "square"}

Signals == {"lfo1", "lfo2"}

DefaultFreq == 440

(* ----------------------------- AudioParam ----------------------------- *)

\* An AudioParam: the value the backend reports and its timeline of events,
\* kept in time order (events of equal time in call order).
NewParam(v) == [value |-> v, events |-> <<>>]

Event(k, v, t) == [kind |-> k, value |-> v, time |-> t]

InsertEvent(p, e) ==
  [p EXCEPT !.events =
      SelectSeq(@, LAMBDA x : x.time <= e.time) \o <<e>>
        \o SelectSeq(@, LAMBDA x : x.time > e.time)]

cancelScheduledValues(p, t) ==
  [p EXCEPT !.events = SelectSeq(@, LAMBDA x : x.time < t)]

setValueAtTime(p, v, t) == InsertEvent(p, Event("setValue", v, t))

linearRampToValueAtTime(p, v, t) == InsertEvent(p, Event("linearRamp", v, t))

exponentialRampToValueAtTime(p, v, t) ==
  InsertEvent(p, Event("exponentialRamp", v, t))

\* The backend reports v as the parameter's value at the next read of .value.
Reported(p, v) == [p EXCEPT !.value = v]

EventsFrom(p, t) == SelectSeq(p.events, LAMBDA x : x.time >= t)

EventsBefore(p, t) == SelectSeq(p.events, LAMBDA x : x.time < t)

(* --------------------------- p5.Oscillator ---------------------------- *)

\* audiocontext.createOscillator(): an OscillatorNode as the backend holds it,
\* a scheduled source with its type, its edge to the output gain and the
\* start and stop calls it took.
createOscillator ==
  [type |-> "sine", toOutput |-> FALSE, starts |-> <<>>, stops |-> <<>>,
   disconnects |-> 0]

\* this.oscillator.frequency of a node just created: the AudioParam and the
\* modulators connected into it.  Only the current node's parameter is kept:
\* start replaces this.oscillator, and nothing refers to the old one's.
createFrequency == [param |-> NewParam(440), inputs |-> {}]

\* The state the handlers of one Oscillator work on.  In osc, oscillator is
\* the index in nodes of this.oscillator, 0 once it is null; gainInputs are
\* the signals connected into this.output.gain; panner tells whether
\* this.panner is held, pannerDisconnects counts the disconnect calls made on
\* it, and oscMods is the field this.disconnect() assigns.
World(o, ns, fr, g) ==
  [osc |-> o, nodes |-> ns, frequency |-> fr, gain |-> g, threw |-> "none"]

Oscillator(freq, type) ==
  LET f == OrDefault(freq, DefaultFreq)
  IN  World([started |-> FALSE, f |-> f, oscillator |-> 1, freqMods |-> <<>>,
             gainInputs |-> {}, panner |-> TRUE, pannerDisconnects |-> 0,
             oscMods |-> "unset"],
            <<[createOscillator EXCEPT !.type = type, !.toOutput = TRUE]>>,
            [createFrequency EXCEPT !.param = setValueAtTime(@, f, 0)],
            setValueAtTime(NewParam(0), 0, 0))

\* stop taking its argument as the time to stop at, not as seconds from now.
OscStopAtGivenTime(w, now, time) ==
  IF w.osc.started
    THEN LET t == OrDefault(time, 0)
         IN  [w EXCEPT !.nodes[w.osc.oscillator].stops = Append(@, t),
                       !.osc.started = FALSE]
    ELSE w

\* The backend rejects a start or stop time below zero: the handler ends at
\* that call.
OscStop(w, now, time) ==
  IF w.osc.started
    THEN LET t == OrDefault(time, 0)
         IN  IF t + now < 0
               THEN [w EXCEPT !.threw = "RangeError"]
               ELSE [w EXCEPT !.nodes[w.osc.oscillator].stops = Append(@, t + now),
                              !.osc.started = FALSE]
    ELSE w

\* exponentialRampToValueAtTime rejects a target that is not positive: the
\* handler ends there, with this.oscillator already replaced.  Once
\* this.oscillator is null, reading its type raises a TypeError.
OscStart(w, now, time, f) ==
  LET w1 == IF w.osc.started THEN OscStop(w, now, Num(now)) ELSE w
  IN  IF w1.osc.oscillator = 0
        THEN [w1 EXCEPT !.threw = "TypeError"]
      ELSE IF ~w1.osc.started
        THEN LET freq == OrDefault(f, w1.osc.f)
                 type == w1.nodes[w1.osc.oscillator].type
                 n    == Len(w1.nodes) + 1
                 w2   == [w1 EXCEPT !.nodes = Append(@, createOscillator),
                                    !.frequency = createFrequency,
                                    !.osc.oscillator = n]
             IN  IF Abs(freq) <= 0
                   THEN [w2 EXCEPT !.threw = "RangeError"]
                 ELSE IF OrDefault(time, 0) + now < 0
                   THEN [w2 EXCEPT
                           !.frequency.param =
                              exponentialRampToValueAtTime(@, Abs(freq), now),
                           !.nodes[n].type = type,
                           !.nodes[n].toOutput = TRUE,
                           !.threw = "RangeError"]
                   ELSE [w2 EXCEPT
                           !.frequency.param =
                              exponentialRampToValueAtTime(@, Abs(freq), now),
                           !.nodes[n].type = type,
                           !.nodes[n].toOutput = TRUE,
                           !.nodes[n].starts = Append(@, OrDefault(time, 0) + now),
                           !.frequency.inputs =
                              {w1.osc.freqMods[i] : i \in DOMAIN w1.osc.freqMods},
                           !.osc.started = TRUE]
        ELSE w1

\* amp with the hold point carrying the target instead of the current value.
OscAmpHoldsTarget(w, now, vol, rampTime, tFromNow) ==
  LET r == OrDefault(rampTime, 0)
      d == OrDefault(tFromNow, 0)
  IN  [w EXCEPT !.gain =
         linearRampToValueAtTime(
           linearRampToValueAtTime(cancelScheduledValues(@, now), vol, now + d),
           vol, now + d + r)]

OscAmp(w, now, vol, rampTime, tFromNow) ==
  LET r          == OrDefault(rampTime, 0)
      d          == OrDefault(tFromNow, 0)
      currentVol == w.gain.value
  IN  [w EXCEPT !.gain =
         linearRampToValueAtTime(
           linearRampToValueAtTime(cancelScheduledValues(@, now), currentVol, now + d),
           vol, now + d + r)]

\* amp(vol) with vol an object: vol.connect(this.output.gain).
OscAmpSignal(w, sig) == [w EXCEPT !.osc.gainInputs = @ \cup {sig}]

\* amp() with no argument: nothing is done and this.output.gain is returned.
OscAmpHandle(w) == w

\* freq without cancelScheduledValues.
OscFreqNoCancel(w, now, val, rampTime, tFromNow) ==
  LET r           == OrDefault(rampTime, 0)
      d           == OrDefault(tFromNow, 0)
      currentFreq == w.frequency.param.value
      held        == setValueAtTime(w.frequency.param, currentFreq, now + d)
  IN  [w EXCEPT !.osc.f = val,
                !.frequency.param =
                   IF val > 0
                     THEN exponentialRampToValueAtTime(held, val, d + r + now)
                     ELSE linearRampToValueAtTime(held, val, d + r + now)]

\* freq without the test of val > 0.
OscFreqAlwaysExponential(w, now, val, rampTime, tFromNow) ==
  LET r           == OrDefault(rampTime, 0)
      d           == OrDefault(tFromNow, 0)
      currentFreq == w.frequency.param.value
      held        == setValueAtTime(cancelScheduledValues(w.frequency.param, now),
                                    currentFreq, now + d)
  IN  [w EXCEPT !.osc.f = val,
                !.frequency.param =
                   exponentialRampToValueAtTime(held, val, d + r + now)]

OscFreq(w, now, val, rampTime, tFromNow) ==
  LET r           == OrDefault(rampTime, 0)
      d           == OrDefault(tFromNow, 0)
      currentFreq == w.frequency.param.value
      held        == setValueAtTime(cancelScheduledValues(w.frequency.param, now),
                                    currentFreq, now + d)
  IN  IF w.osc.oscillator = 0
        THEN [w EXCEPT !.osc.f = val, !.threw = "TypeError"]
        ELSE [w EXCEPT !.osc.f = val,
                       !.frequency.param =
                          IF val > 0
                            THEN exponentialRampToValueAtTime(held, val, d + r + now)
                            ELSE linearRampToValueAtTime(held, val, d + r + now)]

OscFreqSignal(w, sig) ==
  IF w.osc.oscillator = 0
    THEN [w EXCEPT !.threw = "TypeError"]
    ELSE [w EXCEPT !.frequency.inputs = @ \cup {sig},
                   !.osc.freqMods = Append(@, sig)]

\* this.disconnect(): the panner is disconnected from its destination.
OscDisconnect(w) ==
  IF w.osc.panner
    THEN [w EXCEPT !.osc.pannerDisconnects = @ + 1, !.osc.oscMods = "empty"]
    ELSE [w EXCEPT !.threw = "TypeError"]

\* dispose of an Oscillator that has no second oscillator (this.osc2).
OscDispose(w, now) ==
  IF w.osc.oscillator # 0
    THEN LET w1 == OscStop(w, now, Num(now))
             w2 == IF w1.threw = "none" THEN OscDisconnect(w1) ELSE w1
         IN  IF w2.threw # "none"
               THEN w2
               ELSE [w2 EXCEPT !.nodes[w.osc.oscillator].toOutput = FALSE,
                               !.nodes[w.osc.oscillator].disconnects = @ + 1,
                               !.osc.panner = FALSE,
                               !.osc.oscillator = 0]
    ELSE w

(* ------------------- the Oscillator's output chain -------------------- *)

\* The nodes between the output gain and the panner, and the edges between
\* them.  A math stage is named by its kind and by the order it was made in.
OutputGain == [kind |-> "output", id |-> 0]

Panner == [kind |-> "panner", id |-> 0]

DelayNode == [kind |-> "delay", id |-> 0]

MathKinds == {"Add", "Mult", "Scale"}

Stage(kind, id) == [kind |-> kind, id |-> id]

connect(edges, from, to) == edges \cup {<<from, to>>}

\* from.disconnect(): every edge out of the node goes.
disconnect(edges, from) == {e \in edges : e[1] # from}

\* chain is the graph, this.mathOps, whether this.dNode is set, the number of
\* delay nodes and of math stages made so far, and dNode.delayTime.
ChainWorld(c) == [chain |-> c, threw |-> "none", returned |-> "undefined"]

\* The constructor: the panner is built on this.output, and mathOps holds the
\* output alone.
createChain ==
  [edges |-> {<<OutputGain, Panner>>}, mathOps |-> <<OutputGain>>,
   dNode |-> FALSE, delays |-> 0, made |-> 0, delayTime |-> NewParam(0)]

\* phase(p), the backend reporting cur as this.oscillator.frequency.value and
\* held telling whether this.oscillator is set.  The delay time is p / cur,
\* kept as the pair of the two.
OscPhase(c, held, now, p, cur) ==
  LET c1 == IF ~c.chain.dNode
              THEN [c EXCEPT
                      !.chain.dNode = TRUE,
                      !.chain.delays = @ + 1,
                      !.chain.edges =
                         connect(connect(disconnect(@, OutputGain),
                                         OutputGain, DelayNode),
                                 DelayNode, Panner)]
              ELSE c
  IN  IF ~held
        THEN [c1 EXCEPT !.threw = "TypeError"]
        ELSE [c1 EXCEPT !.chain.delayTime =
                           linearRampToValueAtTime(@, <<p, cur>>, now)]

\* p5.prototype._mathChain(o, math, thisChain, nextChain, type): the stage
\* before position thisChain is disconnected from what it fed and connected
\* into math, math is connected into nextChain and recorded at thisChain,
\* and o is returned.
mathChain(c, math, thisChain, nextChain) ==
  LET prev == c.chain.mathOps[thisChain]
  IN  [c EXCEPT
         !.chain.edges = connect(connect(disconnect(@, prev), prev, math),
                                 math, nextChain),
         !.chain.mathOps = IF thisChain = Len(@)
                             THEN Append(@, math)
                             ELSE [@ EXCEPT ![thisChain + 1] = math],
         !.returned = "this"]

\* add, mult and scale: new Add(num), new Mult(num), new Scale(...), spliced
\* in at this.mathOps.length before this.panner.
OscMathAtBase(c, kind) ==
  LET math == Stage(kind, c.chain.made + 1)
  IN  mathChain([c EXCEPT !.chain.made = @ + 1], math, 1, Panner)

OscMath(c, kind) ==
  LET math      == Stage(kind, c.chain.made + 1)
      thisChain == Len(c.chain.mathOps)
      nextChain == Panner
  IN  mathChain([c EXCEPT !.chain.made = @ + 1], math, thisChain, nextChain)

(* ------------------------------ p5.Noise ------------------------------ *)

Colors == {"white", "pink", "brown"}

\* The 0.001 s added to both event times in p5.Noise.prototype.amp, in ticks.
NoisePad == 1

\* audiocontext.createBufferSource(): an AudioBufferSourceNode.
createBufferSource ==
  [buffer |-> "none", loop |-> FALSE, toOutput |-> FALSE,
   starts |-> <<>>, stops |-> <<>>, disconnects |-> 0]

NoiseWorld(n, ps, g) == [noise |-> n, players |-> ps, gain |-> g, threw |-> "none"]

\* noise = 0 stands for the field this.noise not being set, or null;
\* gainInputs are the signals connected into this.output.gain; output
\* and panner tell whether this.output and this.panner are held, and the two
\* counters count the disconnect calls made on them; buffer is "null" once
\* this.buffer is null.
Noise(type) ==
  NoiseWorld([started |-> FALSE, buffer |-> "white", noise |-> 0,
              gainInputs |-> {}, output |-> TRUE, panner |-> TRUE,
              outputDisconnects |-> 0, pannerDisconnects |-> 0],
             <<>>, NewParam(5))

\* The backend rejects stop on a source that start was never called on.
NoiseStop(w, now) ==
  IF w.noise.noise # 0
    THEN IF w.players[w.noise.noise].starts = <<>>
           THEN [w EXCEPT !.threw = "InvalidStateError"]
           ELSE [w EXCEPT !.players[w.noise.noise].stops = Append(@, now),
                          !.noise.started = FALSE]
    ELSE w

\* start without the stop of the unit that is playing.
NoiseStartKeepsPlaying(w, now) ==
  LET n == Len(w.players) + 1
  IN  [w EXCEPT
         !.players = Append(@, [createBufferSource EXCEPT
                                  !.buffer = w.noise.buffer,
                                  !.loop = TRUE,
                                  !.toOutput = TRUE,
                                  !.starts = <<now>>]),
         !.noise.noise = n,
         !.noise.started = TRUE]

\* connect(this.output) raises a TypeError once this.output is null, with
\* this.noise already replaced.
NoiseStart(w, now) ==
  LET w1 == IF w.noise.started THEN NoiseStop(w, now) ELSE w
      n  == Len(w1.players) + 1
      w2 == [w1 EXCEPT
               !.players = Append(@, [createBufferSource EXCEPT
                                        !.buffer = w1.noise.buffer,
                                        !.loop = TRUE]),
               !.noise.noise = n]
  IN  IF w1.threw # "none"
        THEN w1
      ELSE IF ~w2.noise.output
        THEN [w2 EXCEPT !.threw = "TypeError"]
        ELSE [w2 EXCEPT !.players[n].toOutput = TRUE,
                        !.players[n].starts = <<now>>,
                        !.noise.started = TRUE]

\* stop and start take no parameter: the now and now + .01 that setType
\* passes them are not read.
NoiseSetType(w, now, type) ==
  LET w1 == [w EXCEPT !.noise.buffer = IF type \in Colors THEN type ELSE "white"]
  IN  IF w1.noise.started
        THEN NoiseStart(NoiseStop(w1, now), now)
        ELSE w1

\* amp with the 0.001 s added to the hold point only.
NoiseAmpPadsHoldOnly(w, now, vol, rampTime, tFromNow) ==
  LET r          == OrDefault(rampTime, 0)
      d          == OrDefault(tFromNow, 0)
      currentVol == w.gain.value
  IN  [w EXCEPT !.gain =
         linearRampToValueAtTime(
           linearRampToValueAtTime(cancelScheduledValues(@, now), currentVol,
                                   now + d + NoisePad),
           vol, now + d + r)]

NoiseAmp(w, now, vol, rampTime, tFromNow) ==
  LET r          == OrDefault(rampTime, 0)
      d          == OrDefault(tFromNow, 0)
      currentVol == w.gain.value
  IN  IF ~w.noise.output
        THEN [w EXCEPT !.threw = "TypeError"]
        ELSE [w EXCEPT !.gain =
                linearRampToValueAtTime(
                  linearRampToValueAtTime(cancelScheduledValues(@, now), currentVol,
                                          now + d + NoisePad),
                  vol, now + d + r + NoisePad)]

\* amp(vol) with vol not a number (an object, or undefined): the handler
\* does not look at the kind of vol.  It cancels and sets the hold point as
\* for a number, and the backend rejects the ramp to a target that is not a
\* finite number.
NoiseAmpNotNumber(w, now, rampTime, tFromNow) ==
  LET d          == OrDefault(tFromNow, 0)
      currentVol == w.gain.value
  IN  IF ~w.noise.output
        THEN [w EXCEPT !.threw = "TypeError"]
        ELSE [w EXCEPT !.gain =
                         linearRampToValueAtTime(cancelScheduledValues(@, now),
                                                 currentVol, now + d + NoisePad),
                       !.threw = "TypeError"]

\* dispose that does not clear this.noise.
NoiseDisposeKeepsPlayer(w, now) ==
  LET n  == w.noise.noise
      w1 == IF n # 0
              THEN NoiseStop([w EXCEPT !.players[n].toOutput = FALSE,
                                       !.players[n].disconnects = @ + 1], now)
              ELSE w
  IN  IF w1.threw # "none"
        THEN w1
        ELSE [w1 EXCEPT
                !.noise.outputDisconnects = IF w1.noise.output THEN @ + 1 ELSE @,
                !.noise.pannerDisconnects = IF w1.noise.panner THEN @ + 1 ELSE @,
                !.noise.output = FALSE,
                !.noise.panner = FALSE,
                !.noise.buffer = "null"]

NoiseDispose(w, now) ==
  LET n  == w.noise.noise
      w1 == IF n # 0
              THEN NoiseStop([w EXCEPT !.players[n].toOutput = FALSE,
                                       !.players[n].disconnects = @ + 1], now)
              ELSE w
  IN  IF w1.threw # "none"
        THEN w1
        ELSE [w1 EXCEPT
                !.noise.outputDisconnects = IF w1.noise.output THEN @ + 1 ELSE @,
                !.noise.pannerDisconnects = IF w1.noise.panner THEN @ + 1 ELSE @,
                !.noise.output = FALSE,
                !.noise.panner = FALSE,
                !.noise.buffer = "null",
                !.noise.noise = 0]

(* --------------------------- inputs drawn ----------------------------- *)

FreqArgs == {-220, 0, 220}

CtorFreqArgs == {NoArg, Num(0), Num(-220)}

OverrideArgs == {NoArg, Num(-220)}

TimeArgs == {NoArg, Num(1)}

\* Offsets of either sign for start and stop.
OffsetArgs == {NoArg, Num(1), Num(-1), Num(-2)}

RampTimeArgs == {NoArg, Num(2)}

DelayArgs == {NoArg, Num(1)}

AmpArgs == {0, 8}

TypeArgs == Colors \cup {"violet"}

\* The type argument of the Noise constructor: absent, or a string.
CtorTypeArgs == {NoArg} \cup {Num(t) : t \in TypeArgs}

\* What the backend may report as a gain and as a frequency when .value is read.
GainReads == {0, 5}

FreqReads == {220, 440}

\* Phases, in tenths.
PhaseArgs == {0, 5}

(* ------------------------------ actions ------------------------------- *)

\* call is the last call made, with the arguments of an amp or freq call
\* (the value the backend reported, then the call's own) and how it ended;
\* passed is every signal given to freq so far, in call order.  Neither is
\* read by a handler.  A dispose call is recorded as "again" when the call
\* before it was a dispose of the same object that returned, as "first"
\* otherwise.

W == World(osc, nodes, frequency, gain)

NW == NoiseWorld(noise, players, ngain)

Called(op, args, threw) == [op |-> op, args |-> args, threw |-> threw]

Result(w, op, args) ==
  /\ osc' = w.osc
  /\ nodes' = w.nodes
  /\ frequency' = w.frequency
  /\ gain' = w.gain
  /\ call' = Called(op, args, w.threw)
  /\ UNCHANGED <<clock, chain, noiseVars>>

NoiseResult(w, op, args) ==
  /\ noise' = w.noise
  /\ players' = w.players
  /\ ngain' = w.gain
  /\ call' = Called(op, args, w.threw)
  /\ UNCHANGED <<clock, oscVars, chain, passed>>

\* audiocontext.currentTime advances by one tick.
Tick ==
  /\ clock < MaxClock
  /\ clock' = clock + 1
  /\ call' = Called("tick", <<>>, "none")
  /\ UNCHANGED <<oscVars, chain, noiseVars, passed>>

Start(time, f) ==
  /\ Len(nodes) < MaxNodes
  /\ Result(OscStart(W, clock, time, f), "start", <<>>)
  /\ UNCHANGED passed

Stop(time) ==
  /\ Result(OscStop(W, clock, time), "stop", <<>>)
  /\ UNCHANGED passed

\* amp(vol, rampTime, tFromNow) with a number, the backend reporting cur as
\* this.output.gain.value.
Amp(cur, vol, rampTime, tFromNow) ==
  /\ Result(OscAmp([W EXCEPT !.gain = Reported(@, cur)], clock, vol, rampTime, tFromNow),
            "amp", <<cur, vol, rampTime, tFromNow>>)
  /\ UNCHANGED passed

\* freq(val, rampTime, tFromNow) with a number, the backend reporting cur as
\* this.oscillator.frequency.value.
Freq(cur, val, rampTime, tFromNow) ==
  /\ Result(OscFreq([W EXCEPT !.frequency.param = Reported(@, cur)], clock, val,
                    rampTime, tFromNow),
            "freq", <<cur, val, rampTime, tFromNow>>)
  /\ UNCHANGED passed

\* freq(sig) with a signal: an object that has connect.
FreqSignal(sig) ==
  /\ Len(osc.freqMods) < MaxMods
  /\ Result(OscFreqSignal(W, sig), "freqSignal", <<>>)
  /\ passed' = Append(passed, sig)

NStart ==
  /\ Len(players) < MaxPlayers
  /\ NoiseResult(NoiseStart(NW, clock), "noise.start", <<>>)

NStop ==
  /\ noise.noise # 0 => Len(players[noise.noise].stops) < MaxStops
  /\ NoiseResult(NoiseStop(NW, clock), "noise.stop", <<>>)

NSetType(type) ==
  /\ Len(players) < MaxPlayers
  /\ NoiseResult(NoiseSetType(NW, clock, type), "noise.setType", <<>>)

\* amp(sig) with a signal, and amp() with no argument, recorded with what
\* it returned.
AmpSignal(sig) ==
  /\ Result(OscAmpSignal(W, sig), "amp.signal", <<sig>>)
  /\ UNCHANGED passed

AmpNone ==
  /\ Result(OscAmpHandle(W), "amp.none", <<"this.output.gain">>)
  /\ UNCHANGED passed

NAmpSignal(cur, sig) ==
  NoiseResult(NoiseAmpNotNumber([NW EXCEPT !.gain = Reported(@, cur)], clock,
                                NoArg, NoArg),
              "noise.amp.signal", <<sig>>)

NAmpNone(cur) ==
  NoiseResult(NoiseAmpNotNumber([NW EXCEPT !.gain = Reported(@, cur)], clock,
                                NoArg, NoArg),
              "noise.amp.none", <<"undefined">>)

CW == ChainWorld(chain)

\* A call on the chain is recorded with what it returned.
ChainResult(c, op) ==
  /\ chain' = c.chain
  /\ call' = Called(op, <<c.returned>>, c.threw)
  /\ UNCHANGED <<clock, oscVars, noiseVars, passed>>

Phase(cur, p) ==
  /\ Len(chain.delayTime.events) < MaxPhases
  /\ ChainResult(OscPhase(CW, osc.oscillator # 0, clock, p, cur), "phase")

Math(kind) ==
  /\ Len(chain.mathOps) <= MaxStages
  /\ ChainResult(OscMath(CW, kind), kind)

Again(op) ==
  IF call.op = op /\ call.threw = "none" THEN <<"again">> ELSE <<"first">>

Dispose ==
  /\ Result(OscDispose(W, clock), "dispose", Again("dispose"))
  /\ UNCHANGED passed

NDispose ==
  /\ noise.noise # 0 => players[noise.noise].disconnects < MaxStops
  /\ NoiseResult(NoiseDispose(NW, clock), "noise.dispose", Again("noise.dispose"))

NAmp(cur, vol, rampTime, tFromNow) ==
  NoiseResult(NoiseAmp([NW EXCEPT !.gain = Reported(@, cur)], clock, vol, rampTime,
                       tFromNow),
              "noise.amp", <<cur, vol, rampTime, tFromNow>>)

(* --------------------------- specifications --------------------------- *)

Constructed(freqs, types) ==
  /\ clock = 0
  /\ \E freq \in freqs, type \in types :
       LET w == Oscillator(freq, type)
       IN  osc = w.osc /\ nodes = w.nodes /\ frequency = w.frequency /\ gain = w.gain
  /\ chain = createChain
  /\ \E type \in {NoArg} :
       LET w == Noise(type)
       IN  noise = w.noise /\ players = w.players /\ ngain = w.gain
  /\ call = Called("new", <<>>, "none")
  /\ passed = <<>>

Init == Constructed(CtorFreqArgs, {"sine"})

\* One Oscillator through its life: started, stopped, retuned, modulated.
Next ==
  \/ Tick
  \/ \E time \in TimeArgs, f \in OverrideArgs : Start(time, f)
  \/ \E time \in TimeArgs : Stop(time)
  \/ \E cur \in FreqReads, val \in FreqArgs : Freq(cur, val, NoArg, NoArg)
  \/ \E sig \in Signals : FreqSignal(sig)

Spec == Init /\ [][Next]_vars

\* The amplitude schedule of one Oscillator.
AmpNext ==
  \/ Tick
  \/ \E cur \in GainReads, vol \in AmpArgs, r \in RampTimeArgs, d \in DelayArgs :
       Amp(cur, vol, r, d)

AmpSpec == Init /\ [][AmpNext]_vars

\* The amplitude and the frequency schedule of one Oscillator side by side,
\* the gain read as 0.5 and ramped to 0.8, the frequency read as 440.
RampNext ==
  \/ Tick
  \/ \E r \in RampTimeArgs, d \in DelayArgs : Amp(5, 8, r, d)
  \/ \E val \in FreqArgs, r \in RampTimeArgs, d \in DelayArgs : Freq(440, val, r, d)

RampSpec == Init /\ [][RampNext]_vars

\* The amplitude schedule of one Noise source.
NoiseAmpNext ==
  \/ Tick
  \/ \E cur \in GainReads, vol \in AmpArgs, r \in RampTimeArgs, d \in DelayArgs :
       NAmp(cur, vol, r, d)

NoiseAmpSpec == Init /\ [][NoiseAmpNext]_vars

\* One Oscillator and one Noise source started and stopped.
StopNext ==
  \/ Tick
  \/ \E time \in TimeArgs : Start(time, NoArg)
  \/ \E time \in TimeArgs : Stop(time)
  \/ NStart
  \/ NStop

StopSpec == Init /\ [][StopNext]_vars

\* An Oscillator of each of the four variants, constructed with or without a
\* frequency, then started and stopped.
VariantInit == Constructed(CtorFreqArgs, Types)

VariantNext ==
  \/ Tick
  \/ \E time \in TimeArgs, f \in OverrideArgs : Start(time, f)
  \/ \E time \in TimeArgs : Stop(time)

VariantSpec == VariantInit /\ [][VariantNext]_vars

\* new p5.Noise(type), beside an Oscillator.
ColorInit ==
  /\ clock = 0
  /\ \E freq \in {NoArg} :
       LET w == Oscillator(freq, "sine")
       IN  osc = w.osc /\ nodes = w.nodes /\ frequency = w.frequency /\ gain = w.gain
  /\ chain = createChain
  /\ \E type \in CtorTypeArgs :
       LET w == Noise(type)
       IN  /\ noise = w.noise /\ players = w.players /\ ngain = w.gain
           /\ call = Called("new", type, "none")
  /\ passed = <<>>

\* One Noise source started, stopped and recoloured.
ColorNext ==
  \/ Tick
  \/ NStart
  \/ NStop
  \/ \E type \in TypeArgs : NSetType(type)

ColorSpec == ColorInit /\ [][ColorNext]_vars

\* amp called with a number, with a signal and with nothing, on an
\* Oscillator and on a Noise source.
DispatchNext ==
  \/ Tick
  \/ \E d \in DelayArgs : Amp(0, 8, NoArg, d)
  \/ \E sig \in Signals : AmpSignal(sig)
  \/ AmpNone
  \/ \E d \in DelayArgs : NAmp(5, 8, NoArg, d)
  \/ \E sig \in Signals : NAmpSignal(5, sig)
  \/ NAmpNone(5)

DispatchSpec == Init /\ [][DispatchNext]_vars

\* The math stages of one Oscillator.
MathNext ==
  \/ Tick
  \/ \E kind \in MathKinds : Math(kind)

MathSpec == Init /\ [][MathNext]_vars

\* The math stages and the phase of one Oscillator.
ChainNext ==
  \/ Tick
  \/ \E kind \in MathKinds : Math(kind)
  \/ \E p \in PhaseArgs : Phase(440, p)

ChainSpec == Init /\ [][ChainNext]_vars

\* One Oscillator started and stopped with offsets of either sign.
OffsetNext ==
  \/ Tick
  \/ \E time \in OffsetArgs : Start(time, NoArg)
  \/ \E time \in OffsetArgs : Stop(time)

OffsetSpec == Init /\ [][OffsetNext]_vars

\* The Oscillator, and the Noise source, as the constructor left it.
OscFresh == \E freq \in CtorFreqArgs : W = Oscillator(freq, "sine")

NoiseFresh == NW = Noise(NoArg)

\* An Oscillator or a Noise source started, stopped and disposed of; each
\* behaviour works on one of the two and leaves the other as constructed.
DisposeNext ==
  \/ Tick
  \/ NoiseFresh /\ Start(NoArg, NoArg)
  \/ NoiseFresh /\ Stop(NoArg)
  \/ NoiseFresh /\ Dispose
  \/ OscFresh /\ NStart
  \/ OscFresh /\ NStop
  \/ OscFresh /\ NDispose

DisposeSpec == Init /\ [][DisposeNext]_vars

(* ------------------------------- claims ------------------------------- *)

\* The instants at which a unit of the model can be scheduled to start or stop.
Instants == 0 .. (2 * MaxClock + 2)

\* A unit is live from its scheduled start until its scheduled stop.
LiveAt(node, t) ==
  /\ node.starts # <<>>
  /\ node.starts[1] <= t
  /\ node.stops = <<>> \/ t < node.stops[Len(node.stops)]

LiveUnits(t) == {i \in DOMAIN nodes : LiveAt(nodes[i], t)}

\* C1: at every clock instant at most one generator unit of the Oscillator is
\* live, whatever start(offset) and stop(offset) calls were made and however
\* the clock advanced between them.
C1_AtMostOneLiveUnit == \A t \in Instants : Cardinality(LiveUnits(t)) <= 1

\* C2: start on a Started Oscillator ends in the state that stop() followed by
\* start, at the same clock instant, ends in: the replaced unit is scheduled
\* to stop at the current clock time, one new unit is created, started is
\* true and every frequency modulator is connected to the new unit.
C2_RestartIsStopThenStart ==
  [][\A time \in TimeArgs, f \in OverrideArgs :
       (osc.started /\ Start(time, f)) =>
          LET w == OscStart(OscStop(W, clock, NoArg), clock, time, f)
          IN  /\ osc' = w.osc
              /\ nodes' = w.nodes
              /\ frequency' = w.frequency
              /\ call'.threw = w.threw]_vars

\* C3: no exponential ramp is ever issued on the frequency parameter with a
\* target that is zero or negative: none is rejected by the backend, and none
\* stands in the parameter's timeline.
C3_NoNonPositiveExponentialRamp ==
  /\ call.threw # "RangeError"
  /\ \A i \in DOMAIN frequency.param.events :
       frequency.param.events[i].kind = "exponentialRamp"
         => frequency.param.events[i].value > 0

\* C4: frequencyModulators holds every signal ever passed to freq, in call
\* order, and each is connected to the frequency input of the current unit.
C4_ModulatorsTrackedAndConnected ==
  /\ osc.freqMods = passed
  /\ \A i \in DOMAIN osc.freqMods : osc.freqMods[i] \in frequency.inputs

\* An optional argument as the number it stands for, a missing one as 0.
Given(a) == IF a = NoArg THEN 0 ELSE a[1]

\* The times of the hold point and of the ramp's end for the call recorded
\* in c, made at time now: now + delay and now + delay + rampTime.
HoldTime(c, now) == now + Given(c.args[4])

RampEnd(c, now) == now + Given(c.args[4]) + Given(c.args[3])

\* C5: Oscillator.amp(v, rampTime, delay) with a number leaves, from now on,
\* exactly two events on the output gain: one carrying the gain's current
\* value at now + delay and a linear ramp to v ending at now + delay +
\* rampTime; whatever was scheduled at or after now before the call is gone.
C5_AmpHoldsThenRampsLinearly ==
  call.op = "amp" =>
     LET after == EventsFrom(gain, clock)
     IN  /\ Len(after) = 2
         /\ after[1].value = call.args[1]
         /\ after[1].time = HoldTime(call, clock)
         /\ after[2] = Event("linearRamp", call.args[2], RampEnd(call, clock))

\* amp(0.8, 2, 1) at clock 1 with the gain at 0.5, after an earlier amp: the
\* gain holds 0.5 until clock + 1 and reaches 0.8 at clock + 3.
C5_Witness ==
  /\ call = Called("amp", <<5, 8, Num(2), Num(1)>>, "none")
  /\ clock = 1
  /\ EventsBefore(gain, clock) # <<>>
  /\ EventsFrom(gain, clock)
       = <<Event("linearRamp", 5, clock + 1), Event("linearRamp", 8, clock + 3)>>

OwnsPending(p, c, now) ==
  LET after == EventsFrom(p, now)
  IN  /\ Len(after) = 2
      /\ after[1].value = c.args[1] /\ after[1].time = HoldTime(c, now)
      /\ after[2].value = c.args[2] /\ after[2].time = RampEnd(c, now)

\* C7: after each numeric amp call, and each numeric freq call, the events
\* pending on its parameter from the call's clock time on are the hold and
\* the ramp of that call alone, and the events before that time are the ones
\* that were there: none added, none removed.
C7_LatestCallOwnsPendingEvents ==
  [][/\ call'.op = "amp" =>
          /\ OwnsPending(gain', call', clock')
          /\ EventsBefore(gain', clock') = EventsBefore(gain, clock')
     /\ call'.op = "freq" =>
          /\ OwnsPending(frequency'.param, call', clock')
          /\ EventsBefore(frequency'.param, clock')
               = EventsBefore(frequency.param, clock')]_vars

\* An amp call at clock 1 after one at clock 0: the earlier call's hold point
\* (time 0) is still there, its ramp (ending at 2) is not, and what is pending
\* is the later call's.
C7_Witness ==
  /\ call = Called("amp", <<5, 8, NoArg, Num(1)>>, "none")
  /\ clock = 1
  /\ EventsBefore(gain, clock) = <<Event("linearRamp", 5, 0)>>
  /\ EventsFrom(gain, clock)
       = <<Event("linearRamp", 5, 2), Event("linearRamp", 8, 2)>>

\* C8: freq(v, rampTime, delay) with a number records v as the frequency,
\* and leaves from now on a hold point with the current frequency value at
\* now + delay and one ramp to v ending at now + delay + rampTime, which is
\* exponential when v > 0 and linear when v <= 0; the ramps of amp are linear.
C8_FreqRampKindFollowsSign ==
  /\ call.op = "freq" =>
       /\ osc.f = call.args[2]
       /\ EventsFrom(frequency.param, clock)
            = <<Event("setValue", call.args[1], HoldTime(call, clock)),
                Event(IF call.args[2] > 0 THEN "exponentialRamp" ELSE "linearRamp",
                      call.args[2], RampEnd(call, clock))>>
  /\ call.op = "amp" =>
       \A i \in DOMAIN EventsFrom(gain, clock) :
          EventsFrom(gain, clock)[i].kind = "linearRamp"

\* freq(0, 2, 1) at clock 1 with the frequency at 440: a linear ramp to 0.
C8_Witness ==
  /\ call = Called("freq", <<440, 0, Num(2), Num(1)>>, "none")
  /\ clock = 1
  /\ osc.f = 0
  /\ EventsFrom(frequency.param, clock)
       = <<Event("setValue", 440, 2), Event("linearRamp", 0, 4)>>

\* C9: stop on an Oscillator or a Noise source that is not Started schedules
\* no stop on any unit, changes no field of the object and raises no error.
C9_StopWhenNotStartedDoesNothing ==
  [][/\ (call'.op = "stop" /\ ~osc.started) =>
          (UNCHANGED oscVars /\ call'.threw = "none")
     /\ (call'.op = "noise.stop" /\ ~noise.started) =>
          (UNCHANGED noiseVars /\ call'.threw = "none")]_vars

\* C10: for each variant, a stop that follows a start at once (the clock not
\* having moved) finds the Oscillator started, leaves started false, and
\* leaves exactly one stop on the unit that start created, at or after the
\* current clock; no other unit is touched.
C10_StartThenStopSchedulesOneStop ==
  [][(call.op = "start" /\ call'.op = "stop") =>
        LET unit == nodes'[osc.oscillator]
        IN  /\ osc.started
            /\ ~osc'.started
            /\ osc'.oscillator = osc.oscillator
            /\ nodes[osc.oscillator].stops = <<>>
            /\ Len(unit.stops) = 1
            /\ unit.stops[1] >= clock
            /\ unit.type = nodes[1].type
            /\ \A i \in DOMAIN nodes : i # osc.oscillator => nodes'[i] = nodes[i]]_vars

\* new p5.SqrOsc(), one tick, then start() and stop(): the one unit start
\* created starts at 1 and is stopped at 1, and started is false.
C10_Witness ==
  /\ call.op = "stop"
  /\ clock = 1
  /\ ~osc.started
  /\ osc.f = DefaultFreq
  /\ frequency.param.events = <<Event("exponentialRamp", DefaultFreq, 1)>>
  /\ nodes = <<[createOscillator EXCEPT !.type = "square", !.toOutput = TRUE],
               [createOscillator EXCEPT !.type = "square", !.toOutput = TRUE,
                                        !.starts = <<1>>, !.stops = <<1>>]>>

Max0(a) == IF Given(a) < 0 THEN 0 ELSE Given(a)

\* C11: start(timeOffset) on an Oscillator that is not Started schedules the
\* new unit's start at now + max(0, timeOffset), stop(timeOffset) on a Started
\* one schedules the unit's stop at now + max(0, timeOffset), and neither
\* raises an error, whatever the sign of timeOffset.
C11_OffsetsClampedAtZero ==
  [][\A time \in OffsetArgs :
       /\ (~osc.started /\ Start(time, NoArg)) =>
             /\ call'.threw = "none"
             /\ nodes'[osc'.oscillator].starts = <<clock + Max0(time)>>
       /\ (osc.started /\ Stop(time)) =>
             /\ call'.threw = "none"
             /\ nodes'[osc.oscillator].stops
                  = Append(nodes[osc.oscillator].stops, clock + Max0(time))]_vars

\* C12: a dispose that follows a dispose of the same Oscillator or Noise
\* source raises no error and changes nothing: no stop and no disconnect is
\* issued on any unit, on the output or on the panner, and every field stays
\* as the first dispose left it.
C12_DisposeTwiceChangesNothing ==
  [][/\ (call'.op = "dispose" /\ call'.args = <<"again">>) =>
          (UNCHANGED oscVars /\ call'.threw = "none")
     /\ (call'.op = "noise.dispose" /\ call'.args = <<"again">>) =>
          (UNCHANGED noiseVars /\ call'.threw = "none")]_vars

\* A second dispose of a Noise source that was playing when the first one
\* came: its one unit was disconnected once and stopped once, and every
\* reference is cleared.
C12_Witness ==
  /\ call = Called("noise.dispose", <<"again">>, "none")
  /\ noise.noise = 0 /\ ~noise.output /\ ~noise.panner /\ noise.buffer = "null"
  /\ Len(players) = 1
  /\ players[1].disconnects = 1
  /\ Len(players[1].stops) = 1
  /\ noise.outputDisconnects = 1
  /\ noise.pannerDisconnects = 1

\* C13: dispose on a Started Oscillator schedules the stop of the live unit
\* at the clock value of the call.
C13_DisposeStopsAtClock ==
  [][(call'.op = "dispose" /\ osc.started) =>
        nodes'[osc.oscillator].stops
           = Append(nodes[osc.oscillator].stops, clock)]_vars

\* A playback unit plays from its start until the first stop it was given.
Playing(player, t) ==
  /\ player.starts # <<>>
  /\ player.starts[1] <= t
  /\ player.stops = <<>> \/ t < player.stops[1]

PlayingUnits(t) == {i \in DOMAIN players : Playing(players[i], t)}

\* C14: after any start, stop and setType calls on a Noise source, at most
\* one playback unit is playing at every instant, and while the source is
\* Started its current unit is started, not stopped, and bound to the current
\* buffer.
C14_OnePlayingUnitOnCurrentBuffer ==
  /\ \A t \in Instants : Cardinality(PlayingUnits(t)) <= 1
  /\ noise.started =>
       /\ noise.noise \in DOMAIN players
       /\ players[noise.noise].buffer = noise.buffer
       /\ players[noise.noise].starts # <<>>
       /\ players[noise.noise].stops = <<>>

\* setType('pink') at clock 1 on a source started at clock 0: the white unit
\* is stopped at 1 and a pink one plays.
C14_Witness ==
  /\ call.op = "noise.setType"
  /\ clock = 1
  /\ noise.started /\ noise.buffer = "pink" /\ noise.noise = 2
  /\ Len(players) = 2
  /\ players[1].buffer = "white" /\ players[1].starts = <<0>>
  /\ players[1].stops = <<1>>
  /\ players[2].buffer = "pink" /\ players[2].stops = <<>>
  /\ PlayingUnits(1) = {2}

\* The 0.01 s setType adds to the time it passes to start, in ticks.
RestartDelay == 10

\* C15: setType on a Started Noise source stops the current unit at the
\* clock value of the call and schedules the start of the unit that
\* replaces it 10 ms after it.
C15_RestartTenMillisecondsLater ==
  [][(call'.op = "noise.setType" /\ noise.started) =>
        /\ players'[noise.noise].stops = Append(players[noise.noise].stops, clock)
        /\ noise'.noise = Len(players) + 1
        /\ players'[noise'.noise].starts = <<clock + RestartDelay>>]_vars

\* C16: new p5.Noise(type) is in the state that new p5.Noise() followed by
\* setType(type) is in: its buffer is the one of that colour, and white when
\* the type is absent or not a colour.
C16_ConstructorSelectsColor ==
  call.op = "new" =>
     NW = NoiseSetType(Noise(NoArg), clock,
                       IF call.args = NoArg THEN "undefined" ELSE call.args[1])

\* The nodes that feed the panner, and the math stage made last.
Feeders == {e[1] : e \in {x \in chain.edges : x[2] = Panner}}

LastStage == chain.mathOps[Len(chain.mathOps)]

C18_AmpDispatchesOnArgument ==
  [][/\ call'.op = "amp.signal" =>
          /\ gain'.events = gain.events
          /\ call'.args[1] \in osc'.gainInputs
          /\ call'.threw = "none"
     /\ call'.op = "amp.none" =>
          /\ UNCHANGED oscVars
          /\ call' = Called("amp.none", <<"this.output.gain">>, "none")
     /\ call'.op = "noise.amp.signal" =>
          /\ ngain'.events = ngain.events
          /\ call'.args[1] \in noise'.gainInputs
          /\ call'.threw = "none"
     /\ call'.op = "noise.amp.none" =>
          /\ UNCHANGED noiseVars
          /\ call' = Called("noise.amp.none", <<"this.output.gain">>, "none")]_vars

\* The nodes a signal entering at the nodes of seen gets to.
RECURSIVE Reach(_, _)
Reach(seen, edges) ==
  LET next == seen \cup {e[2] : e \in {x \in edges : x[1] \in seen}}
  IN  IF next = seen THEN seen ELSE Reach(next, edges)

\* The output gain's signal gets to the panner.
Feeds(edges) == Panner \in Reach({OutputGain}, edges)

Without(edges, n) == {e \in edges : e[1] # n /\ e[2] # n}

\* C19: phase makes the delay node once, and once it is made the output
\* gain's signal gets to the panner, and only through the delay node and
\* through the math stage made last, whatever the order of the phase, add,
\* mult and scale calls.
C19_PathThroughDelayAndStage ==
  /\ chain.delays <= 1
  /\ chain.dNode =>
       /\ Feeds(chain.edges)
       /\ ~Feeds(Without(chain.edges, DelayNode))
       /\ Len(chain.mathOps) > 1 => ~Feeds(Without(chain.edges, LastStage))

\* C20: once dispose has run, the unit reference stays cleared and started
\* stays false whatever start calls follow, on the Oscillator and on the
\* Noise source, and a start call that fails changes nothing.
C20_DisposedIsAbsorbing ==
  [][/\ ~osc'.panner => (osc'.oscillator = 0 /\ ~osc'.started)
     /\ ~noise'.output => (noise'.noise = 0 /\ ~noise'.started)
     /\ (call'.op = "start" /\ call'.threw # "none" /\ ~osc.panner) =>
           UNCHANGED oscVars
     /\ (call'.op = "noise.start" /\ call'.threw # "none" /\ ~noise.output) =>
           UNCHANGED noiseVars]_vars

====
